---- MODULE Spec2Model ----
(***************************************************************************)
(* A model of the chatbot-api document pipeline: the text chunker          *)
(* (lib/document-processor.js, splitTextIntoChunks), the similarity ranker *)
(* (lib/storage.js, searchSimilarChunks) and the request handlers of       *)
(* routes.js together with the detached embedding tasks they leave behind. *)
(*                                                                         *)
(* Strings are sequences of one-character strings and every index is       *)
(* 0-based as in JavaScript; SubSeq is only used inside Substring.         *)
(***************************************************************************)
EXTENDS Integers, Sequences, FiniteSets, TLC

VARIABLES
    \* ---- splitTextIntoChunks(text, chunkSize, overlap), one loop iteration per step
    text,        \* the argument text
    chunkSize,   \* the argument chunkSize
    overlap,     \* the argument overlap
    startPos,    \* the local startPos
    chunks,      \* the local array chunks
    cuts,        \* history: <<startPos, endPos>> of every iteration so far
    cpc,         \* "loop" at the loop head, "done" after the return
    \* ---- one call storage.searchSimilarChunks(embedding, limit)
    rStore,      \* the DocumentChunk collection the call reads
    rQuery,      \* the argument embedding
    rLimit,      \* the argument limit
    rResult,     \* the returned array
    rpc,         \* "call" before the call, "done" after it
    \* ---- the server: collections, requests in flight, detached tasks
    documents,   \* Document collection: the set of document ids
    chunkStore,  \* DocumentChunk collection, in insertion order
    messages,    \* Message collection, in creation order
    tasks,       \* detached generateEmbedding(...).then(...).catch(...) per chunk id
    uploads,     \* POST /api/documents requests
    deletes,     \* DELETE /api/documents/:id requests
    turns,       \* POST /api/chat requests
    resetCount   \* number of completed clearMessages() calls

chunkerVars == <<text, chunkSize, overlap, startPos, chunks, cuts, cpc>>

rankerVars == <<rStore, rQuery, rLimit, rResult, rpc>>

systemVars ==
    <<documents, chunkStore, messages, tasks, uploads, deletes, turns, resetCount>>

vars == <<chunkerVars, rankerVars, systemVars>>

----------------------------------------------------------------------------
(* Bounds of the model *)

\* iterations of the chunker loop that are explored for one input
MaxIter == 6
\* paragraph / sentence markers placed in one input text
MaxMarks == 2
\* chunks in the collection a ranker call reads
MaxStore == 3
\* the largest limit a ranker call is given
MaxLimit == 3
\* upload, delete and chat requests and resets the server receives
MaxUploads == 1
MaxDeletes == 1
MaxTurns == 2
MaxResets == 1

----------------------------------------------------------------------------
(* JavaScript primitives used by the code *)

Min2(a, b) == IF a < b THEN a ELSE b

Max2(a, b) == IF a > b THEN a ELSE b

\* ToIntegerOrInfinity followed by the clamp to [0, length] that indexOf and
\* substring both apply to a position argument
Clamp(n, len) == Min2(Max2(n, 0), len)

\* String.prototype.indexOf(pat, from): the least index >= clamp(from) at which
\* pat occurs, or -1
IndexOf(s, pat, from) ==
    LET n == Len(s)
        k == Len(pat)
        hits == { i \in Clamp(from, n)..(n - k) :
                    \A j \in 1..k : s[i + j] = pat[j] }
    IN  IF hits = {} THEN -1
        ELSE CHOOSE i \in hits : \A h \in hits : i <= h

\* String.prototype.substring(a, b): both ends clamped, swapped when a > b
Substring(s, a, b) ==
    LET x == Clamp(a, Len(s))
        y == Clamp(b, Len(s))
    IN  SubSeq(s, Min2(x, y) + 1, Max2(x, y))

\* the characters String.prototype.trim removes (those the texts here contain)
IsSpace(c) == c \in {" ", "\n", "\t", "\r"}

\* !s.trim() : the string is empty after trimming
TrimIsEmpty(s) == \A i \in 1..Len(s) : IsSpace(s[i])

----------------------------------------------------------------------------
(* splitTextIntoChunks *)

\* the two boundary patterns
ParagraphBreak == <<"\n", "\n">>

SentenceBreak == <<".", " ">>

\* how far before the proposed end the two searches start
SearchBack == 100
\* a paragraph break is accepted strictly before endPos + ParagraphAhead
ParagraphAhead == 100
\* a sentence break is accepted strictly before endPos + SentenceAhead
SentenceAhead == 50

\* (mutant) the sentence end is looked for first, the paragraph end second
EndPosSentenceFirst(t, start, size) ==
    LET proposed == start + size
        paragraphEnd == IndexOf(t, ParagraphBreak, proposed - SearchBack)
        sentenceEnd == IndexOf(t, SentenceBreak, proposed - SearchBack)
        snapped ==
            IF proposed < Len(t)
            THEN IF sentenceEnd # -1 /\ sentenceEnd < proposed + SentenceAhead
                 THEN sentenceEnd + 1
                 ELSE IF paragraphEnd # -1 /\ paragraphEnd < proposed + ParagraphAhead
                      THEN paragraphEnd
                      ELSE proposed
            ELSE proposed
    IN  Min2(snapped, Len(t))

\* the end position of the chunk that starts at start: the proposed end,
\* snapped to a paragraph or sentence end, then clamped to the text length
EndPos(t, start, size) ==
    LET proposed == start + size
        paragraphEnd == IndexOf(t, ParagraphBreak, proposed - SearchBack)
        sentenceEnd == IndexOf(t, SentenceBreak, proposed - SearchBack)
        snapped ==
            IF proposed < Len(t)
            THEN IF paragraphEnd # -1 /\ paragraphEnd < proposed + ParagraphAhead
                 THEN paragraphEnd
                 ELSE IF sentenceEnd # -1 /\ sentenceEnd < proposed + SentenceAhead
                      THEN sentenceEnd + 1
                      ELSE proposed
            ELSE proposed
    IN  Min2(snapped, Len(t))

\* (mutant) the next chunk starts where the previous one ended
NextStartWithoutOverlap(endPos, ov) == endPos

\* (mutant) the next start goes back by twice the overlap
NextStartTwiceTheOverlap(endPos, ov) == endPos - 2 * ov

\* (mutant) the next start leaves one character of the text out of the overlap
NextStartOffByOne(endPos, ov) == endPos - ov + 1

\* startPos = endPos - overlap
NextStart(endPos, ov) == endPos - ov

\* (mutant) the progress test without its endPos === text.length half
BreaksOnStartOnly(len, newStart, endPos) == newStart >= len

\* the progress test that ends the loop early
Breaks(len, newStart, endPos) == newStart >= len \/ endPos = len

\* the whole function, as the sequence of chunks it returns; it is applied
\* only where the loop is known to end (the upload path's parameters)
RECURSIVE SplitFrom(_, _, _, _)
SplitFrom(t, size, ov, start) ==
    IF ~(start < Len(t)) THEN <<>>
    ELSE LET endPos == EndPos(t, start, size)
             chunk == Substring(t, start, endPos)
             newStart == NextStart(endPos, ov)
         IN  IF Breaks(Len(t), newStart, endPos) THEN <<chunk>>
             ELSE <<chunk>> \o SplitFrom(t, size, ov, newStart)

splitTextIntoChunks(t, size, ov) == SplitFrom(t, size, ov, 0)

----------------------------------------------------------------------------
(* The input texts of the chunker *)

\* the filler of a text: letters with a blank now and then, no boundary pattern
Prose(i) == IF i % 7 = 6 THEN " " ELSE IF i % 2 = 0 THEN "a" ELSE "b"

\* a text of length len; marks is a set of <<position, pattern>> and the
\* pattern is written at position, position + 1
MakeText(len, kind, marks) ==
    [ i \in 1..len |->
        LET p == i - 1
            at == { m \in marks : m[1] = p \/ m[1] + 1 = p }
        IN  IF at # {}
            THEN LET m == CHOOSE x \in at : \A y \in at : x[1] <= y[1]
                 IN  m[2][p - m[1] + 1]
            ELSE IF kind = "blank" THEN " " ELSE Prose(p) ]

\* the parameter pairs explored, all with 0 <= overlap < chunkSize; the first
\* is the pair the upload path uses
ChunkSize == 1000

Overlap == 200

Params == { <<ChunkSize, Overlap>>, <<150, 100>>, <<100, 0>>, <<40, 10>> }

\* text lengths around the chunk size
Lengths(size) ==
    { 0, 1, size - 1, size, size + 1, size + 120, 2 * size + 500 }

\* marker positions around the proposed end of the first chunk, and around
\* the proposed end of the second chunk when the first ended at its earliest
MarkPositions(size, ov, len) ==
    { p \in { 0, size - SearchBack - 1, size - SearchBack, size - 1,
              size + SentenceAhead - 1, size + SentenceAhead,
              size + ParagraphAhead - 1, size + ParagraphAhead,
              2 * size - SearchBack, 2 * size - 1,
              2 * size - ov - 2 * SearchBack,
              2 * size - ov - SearchBack + ParagraphAhead - 1 } :
        p >= 0 /\ p + 2 <= len }

\* sets of at most MaxMarks markers whose two characters do not collide
MarkSets(size, ov, len) ==
    LET one == MarkPositions(size, ov, len) \X { ParagraphBreak, SentenceBreak }
    IN  { ms \in SUBSET one :
            /\ Cardinality(ms) <= MaxMarks
            /\ \A a \in ms : \A b \in ms :
                 a # b => (a[1] + 1 < b[1] \/ b[1] + 1 < a[1]) }

\* the state of the variables of a part of the model that a specification
\* does not exercise
RankerIdle ==
    /\ rStore = <<>>
    /\ rQuery = <<>>
    /\ rLimit = 0
    /\ rResult = <<>>
    /\ rpc = "idle"

ChunkerIdle ==
    /\ text = <<>>
    /\ chunkSize = ChunkSize
    /\ overlap = Overlap
    /\ startPos = 0
    /\ chunks = <<>>
    /\ cuts = <<>>
    /\ cpc = "idle"

SystemIdle ==
    /\ documents = {}
    /\ chunkStore = <<>>
    /\ messages = <<>>
    /\ tasks = <<>>
    /\ uploads = <<>>
    /\ deletes = <<>>
    /\ turns = <<>>
    /\ resetCount = 0

InitChunker ==
    /\ \E pr \in Params :
         /\ chunkSize = pr[1]
         /\ overlap = pr[2]
         /\ \E len \in Lengths(pr[1]) :
              \E kind \in { "prose", "blank" } :
                \E ms \in MarkSets(pr[1], pr[2], len) :
                  /\ kind = "blank" => (ms = {} /\ len < pr[1])
                  /\ text = MakeText(len, kind, ms)
    /\ startPos = 0
    /\ chunks = <<>>
    /\ cuts = <<>>
    /\ cpc = "loop"
    /\ RankerIdle
    /\ SystemIdle

\* one iteration of the while loop, the progress test included
Iterate ==
    /\ cpc = "loop"
    /\ startPos < Len(text)
    /\ Len(cuts) < MaxIter
    /\ LET endPos == EndPos(text, startPos, chunkSize)
           newStart == NextStart(endPos, overlap)
       IN  /\ chunks' = Append(chunks, Substring(text, startPos, endPos))
           /\ cuts' = Append(cuts, <<startPos, endPos>>)
           /\ startPos' = newStart
           /\ cpc' = IF Breaks(Len(text), newStart, endPos) THEN "done" ELSE "loop"
    /\ UNCHANGED <<text, chunkSize, overlap, rankerVars, systemVars>>

\* the loop condition fails on entry: return chunks
ReturnChunks ==
    /\ cpc = "loop"
    /\ ~(startPos < Len(text))
    /\ cpc' = "done"
    /\ UNCHANGED <<text, chunkSize, overlap, startPos, chunks, cuts>>
    /\ UNCHANGED <<rankerVars, systemVars>>

NextChunker == Iterate \/ ReturnChunks

SpecChunker == InitChunker /\ [][NextChunker]_vars

----------------------------------------------------------------------------
(* Claims about splitTextIntoChunks, checked under SpecChunker *)

\* the start positions at which the loop body has run so far
Visited == { cuts[i][1] : i \in 1..Len(cuts) }

\* s without its first n characters (String.prototype.slice(n))
Drop(s, n) == SubSeq(s, Min2(n, Len(s)) + 1, Len(s))

\* the first chunk followed by every later chunk without its first ov characters
RECURSIVE Rebuild(_, _, _)
Rebuild(cs, ov, i) ==
    IF i > Len(cs) THEN <<>>
    ELSE (IF i = 1 THEN cs[1] ELSE Drop(cs[i], ov)) \o Rebuild(cs, ov, i + 1)

\* C1: splitTextIntoChunks terminates for every text and every 0 <= overlap <
\* chunkSize.  The loop is deterministic in (text, chunkSize, overlap, startPos),
\* so it terminates exactly when it never comes back to the loop head with a
\* start position at which the body has already run.
C1_NoStartPositionRevisited ==
    (cpc = "loop" /\ 0 <= overlap /\ overlap < chunkSize) => startPos \notin Visited

\* C8: in the returned chunks the first starts at 0, each later one starts at
\* the previous end minus overlap (not after the previous end), the last ends at
\* the text length, the ranges cover every index, and the first chunk followed by
\* the later chunks without their first overlap characters is the text.
C8_ChunksTileTheText ==
    cpc = "done" =>
        /\ Len(chunks) = Len(cuts)
        /\ \A i \in 1..Len(cuts) :
             /\ 0 <= cuts[i][1] /\ cuts[i][1] <= cuts[i][2] /\ cuts[i][2] <= Len(text)
             /\ chunks[i] = SubSeq(text, cuts[i][1] + 1, cuts[i][2])
             /\ i = 1 => cuts[i][1] = 0
             /\ i > 1 => /\ cuts[i][1] = cuts[i - 1][2] - overlap
                         /\ cuts[i][1] <= cuts[i - 1][2]
             /\ i = Len(cuts) => cuts[i][2] = Len(text)
        /\ \A p \in 0..(Len(text) - 1) :
             \E i \in 1..Len(cuts) : cuts[i][1] <= p /\ p < cuts[i][2]
        /\ Rebuild(chunks, overlap, 1) = text


\* a returned list of three or more chunks one of whose ends was snapped to a
\* paragraph or sentence end
C8_Witness ==
    /\ cpc = "done"
    /\ Len(chunks) >= 3
    /\ overlap > 0
    /\ \E i \in 1..Len(cuts) :
         cuts[i][2] # cuts[i][1] + chunkSize /\ cuts[i][2] # Len(text)

\* C7 as stated: every text shorter than chunkSize, the empty text included,
\* comes back as exactly one chunk equal to the text.
C7_ShortTextIsOneChunk ==
    (cpc = "done" /\ Len(text) < chunkSize) => chunks = <<text>>

\* C7 as amended: a non-empty text shorter than chunkSize comes back, after one
\* iteration, as exactly one chunk equal to the text (untrimmed), and the empty
\* text comes back as no chunk at all.
C7_ShortTextIsOneChunkUnlessEmpty ==
    (Len(text) < chunkSize /\ (cpc = "done" \/ Len(cuts) >= 1)) =>
        /\ cpc = "done"
        /\ chunks = IF text = <<>> THEN <<>> ELSE <<text>>

\* a whitespace-only text shorter than chunkSize has come back as itself
C7_Witness ==
    /\ cpc = "done"
    /\ 0 < Len(text) /\ Len(text) < chunkSize
    /\ TrimIsEmpty(text)
    /\ chunks = <<text>>

----------------------------------------------------------------------------
(* searchSimilarChunks *)

\* an absent embedding (the schema's default: null)
Null == <<>>

\* sum of a[i] * b[i] over the indexes both vectors have
RECURSIVE DotFrom(_, _, _)
DotFrom(a, b, i) ==
    IF i > Len(a) \/ i > Len(b) THEN 0
    ELSE a[i] * b[i] + DotFrom(a, b, i + 1)

Dot(a, b) == DotFrom(a, b, 1)

\* the magnitude of a vector whose squared magnitude is a perfect square
Magnitude(a) == CHOOSE n \in 0..Dot(a, a) : n * n = Dot(a, a)

\* calculateCosineSimilarity(a, b) = dot(a, b) / (||a|| * ||b||), and 0 when
\* either magnitude is 0; the value is kept exactly, in units of 1/25
calculateCosineSimilarity(a, b) ==
    IF Magnitude(a) = 0 \/ Magnitude(b) = 0 THEN 0
    ELSE (25 * Dot(a, b)) \div (Magnitude(a) * Magnitude(b))

\* (mutant) the query without its filter
FindAllChunks(store) == store

\* DocumentChunk.find({ embedding: { $ne: null } }), in insertion order
FindWithEmbedding(store) == SelectSeq(store, LAMBDA c : c.embedding # Null)

\* (mutant) the comparator of an ascending sort
CompareAscending(a, b) == a.similarity - b.similarity

\* the comparator (a, b) => b.similarity - a.similarity
Compare(a, b) == b.similarity - a.similarity

\* Array.prototype.sort is stable: x, met after every element of sorted, goes
\* before the first element the comparator puts after it
InsertSorted(sorted, x) ==
    LET later == { i \in 1..Len(sorted) : Compare(sorted[i], x) > 0 }
        k == IF later = {} THEN Len(sorted) + 1
             ELSE CHOOSE i \in later : \A j \in later : i <= j
    IN  SubSeq(sorted, 1, k - 1) \o <<x>> \o SubSeq(sorted, k, Len(sorted))

RECURSIVE SortBySimilarity(_)
SortBySimilarity(s) ==
    IF s = <<>> THEN <<>>
    ELSE InsertSorted(SortBySimilarity(SubSeq(s, 1, Len(s) - 1)), s[Len(s)])

\* Array.prototype.slice(0, end)
Slice(s, end) ==
    SubSeq(s, 1, IF end < 0 THEN Max2(Len(s) + end, 0) ELSE Min2(end, Len(s)))

\* the chunks with their scores, sorted
ScoredAndSorted(store, embedding) ==
    LET found == FindWithEmbedding(store)
        chunksWithScores ==
            [ i \in 1..Len(found) |->
                [ chunk |-> found[i],
                  similarity |-> calculateCosineSimilarity(embedding, found[i].embedding) ] ]
    IN  SortBySimilarity(chunksWithScores)

searchSimilarChunks(store, embedding, limit) ==
    LET top == Slice(ScoredAndSorted(store, embedding), limit)
    IN  [ i \in 1..Len(top) |-> top[i].chunk ]

\* the vectors of the model: two axes, an opposite, an oblique one and zero
Vectors == { <<1, 0>>, <<0, 1>>, <<-1, 0>>, <<3, 4>>, <<0, 0>> }

\* a chunk document
Chunk(id, doc, content, embedding) ==
    [ id |-> id, documentId |-> doc, content |-> content, embedding |-> embedding ]

\* the collections of at most MaxStore chunks, each with or without embedding
RankerStores ==
    UNION { [ 1..n -> Vectors \cup { Null } ] : n \in 0..MaxStore }

InitRanker ==
    /\ \E es \in RankerStores :
         rStore = [ i \in 1..Len(es) |-> Chunk(<<1, i>>, 1, <<1, i>>, es[i]) ]
    /\ rQuery \in Vectors
    /\ rLimit \in 0..MaxLimit
    /\ rResult = <<>>
    /\ rpc = "call"
    /\ ChunkerIdle
    /\ SystemIdle

Search ==
    /\ rpc = "call"
    /\ rResult' = searchSimilarChunks(rStore, rQuery, rLimit)
    /\ rpc' = "done"
    /\ UNCHANGED <<rStore, rQuery, rLimit, chunkerVars, systemVars>>

NextRanker == Search

SpecRanker == InitRanker /\ [][NextRanker]_vars

----------------------------------------------------------------------------
(* Claims about searchSimilarChunks, checked under SpecRanker *)

\* the score of a chunk of the collection against the query of the call
Score(c) == calculateCosineSimilarity(rQuery, c.embedding)

\* C6: the call returns at most limit chunks, their scores are non-increasing
\* along the result, and every chunk with an embedding that was left out scores
\* no more than every chunk returned.
C6_TopLimitByNonIncreasingSimilarity ==
    rpc = "done" =>
        /\ Len(rResult) <= rLimit
        /\ \A i \in 1..Len(rResult) : \E j \in 1..Len(rStore) : rResult[i] = rStore[j]
        /\ \A i \in 1..Len(rResult) : \A j \in 1..Len(rResult) :
             i < j => (rResult[i] # rResult[j] /\ Score(rResult[i]) >= Score(rResult[j]))
        /\ Len(rResult) = Min2(rLimit, Len(FindWithEmbedding(rStore)))
        /\ \A j \in 1..Len(rStore) :
             (rStore[j].embedding # Null /\ \A i \in 1..Len(rResult) : rResult[i] # rStore[j])
                => \A i \in 1..Len(rResult) : Score(rStore[j]) <= Score(rResult[i])

\* a call that truncated: it returned two chunks of different scores and left
\* out a third that has an embedding
C6_Witness ==
    /\ rpc = "done"
    /\ Len(rResult) = 2
    /\ Score(rResult[1]) > Score(rResult[2])
    /\ \E j \in 1..Len(rStore) :
         /\ rStore[j].embedding # Null
         /\ \A i \in 1..Len(rResult) : rResult[i] # rStore[j]

----------------------------------------------------------------------------
(* The server: routes.js, document-processor.js, storage.js *)

Uploads == 1..MaxUploads

Deletes == 1..MaxDeletes

Turns == 1..MaxTurns

\* the K of the chat handler's storage.searchSimilarChunks(embedding, 5)
TopK == 5

\* the vectors the embedder answers with in the server model
EmbedderVectors == { <<1, 0>>, <<0, 1>> }

\* t with blanks from position from on
BlankTail(t, from) == [ i \in 1..Len(t) |-> IF i > from THEN " " ELSE t[i] ]

\* the texts of the uploaded files: a short one, one of two chunks, a blank
\* one, and one of two chunks the second of which is blank
UploadTexts ==
    << MakeText(12, "prose", {}),
       MakeText(ChunkSize + 1, "prose", {}),
       MakeText(3, "blank", {}),
       BlankTail(MakeText(ChunkSize + 1, "prose", {}), ChunkSize - Overlap) >>

\* the uploaded files: extension and text (0: the extractor throws on it)
Files ==
    { [ ext |-> ".txt", body |-> t ] : t \in DOMAIN UploadTexts }
        \cup { [ ext |-> ".pdf", body |-> 0 ], [ ext |-> ".exe", body |-> 1 ] }

\* (mutant) processFile also reads .exe files as text
SupportedExtensionsWithExe == { ".pdf", ".docx", ".txt", ".md", ".exe" }

SupportedExtensions == { ".pdf", ".docx", ".txt", ".md" }

\* const chunks = splitTextIntoChunks(text, chunkSize, overlap) of an upload
ChunksOfText(t) == splitTextIntoChunks(UploadTexts[t], ChunkSize, Overlap)

\* the content of a stored chunk; the store keeps it as <<text, index>>
ContentOf(h) == ChunksOfText(h[1])[h[2]]

\* (mutant) the loop without its skip of empty chunks
NextToSaveWithoutSkip(cs, k) == k + 1

\* the index of the first chunk after k that `if (!chunkText.trim()) continue`
\* does not skip, or one past the end
NextToSave(cs, k) ==
    LET kept == { i \in (k + 1)..Len(cs) : ~TrimIsEmpty(cs[i]) }
    IN  IF kept = {} THEN Len(cs) + 1
        ELSE CHOOSE i \in kept : \A j \in kept : i <= j

IdleUpload == [ pc |-> "idle", ext |-> "", text |-> 0, next |-> 0, tmp |-> FALSE ]

IdleDelete == [ pc |-> "idle", id |-> 0 ]

IdleTurn ==
    [ pc |-> "idle", epoch |-> 0, embedding |-> Null, similar |-> <<>>,
      history |-> <<>>, prompt |-> <<>> ]

Message(role, t) == [ role |-> role, turn |-> t, epoch |-> resetCount ]

Init ==
    /\ documents = {}
    /\ chunkStore = <<>>
    /\ messages = <<>>
    /\ tasks = <<>>
    /\ uploads = [ u \in Uploads |-> IdleUpload ]
    /\ deletes = [ d \in Deletes |-> IdleDelete ]
    /\ turns = [ t \in Turns |-> IdleTurn ]
    /\ resetCount = 0
    /\ ChunkerIdle
    /\ RankerIdle

\* ---- POST /api/documents -> processFile

\* multer has stored the file; processFile extracts its text and, when that
\* works, issues document.save()
UploadReceive(u) ==
    /\ uploads[u].pc = "idle"
    /\ \E file \in Files :
         uploads' = [ uploads EXCEPT ![u] =
            IF file.ext \in SupportedExtensions /\ file.body # 0
            THEN [ pc |-> "saving", ext |-> file.ext, text |-> file.body,
                   next |-> 0, tmp |-> TRUE ]
            ELSE [ pc |-> "failed", ext |-> file.ext, text |-> 0,
                   next |-> 0, tmp |-> FALSE ] ]
    /\ UNCHANGED <<documents, chunkStore, messages, tasks, deletes, turns, resetCount,
                   chunkerVars, rankerVars>>

\* the upload after its loop has moved to chunk index k of cs
AfterChunk(up, cs, k) ==
    IF k > Len(cs)
    THEN [ up EXCEPT !.pc = "done", !.next = k, !.tmp = FALSE ]
    ELSE [ up EXCEPT !.pc = "chunking", !.next = k ]

\* document.save() succeeds; processDocumentChunks splits the text and runs
\* up to its first chunk.save()
UploadSaveDocument(u) ==
    /\ uploads[u].pc = "saving"
    /\ documents' = documents \cup { u }
    /\ LET cs == ChunksOfText(uploads[u].text)
       IN  uploads' = [ uploads EXCEPT ![u] = AfterChunk(@, cs, NextToSave(cs, 0)) ]
    /\ UNCHANGED <<chunkStore, messages, tasks, deletes, turns, resetCount,
                   chunkerVars, rankerVars>>

\* document.save() fails: the catch block removes the temporary file and rethrows
UploadSaveDocumentFail(u) ==
    /\ uploads[u].pc = "saving"
    /\ uploads' = [ uploads EXCEPT ![u] = [ @ EXCEPT !.pc = "failed", !.tmp = FALSE ] ]
    /\ UNCHANGED <<documents, chunkStore, messages, tasks, deletes, turns, resetCount,
                   chunkerVars, rankerVars>>

\* (mutant) the chunk is stored only once its embedding is known
NewChunkWithEmbedding(u, k, t) == Chunk(<<u, k>>, u, <<t, k>>, <<1, 0>>)

\* new DocumentChunk({ documentId, content: chunkText })
NewChunk(u, k, t) == Chunk(<<u, k>>, u, <<t, k>>, Null)

\* chunk.save() succeeds: the chunk is stored, its embedding is requested in the
\* background, and the loop runs up to the next chunk.save() or to the return
UploadSaveChunk(u) ==
    /\ uploads[u].pc = "chunking"
    /\ LET k == uploads[u].next
           cs == ChunksOfText(uploads[u].text)
       IN  /\ chunkStore' = Append(chunkStore, NewChunk(u, k, uploads[u].text))
           /\ tasks' = (<<u, k>> :> "pending") @@ tasks
           /\ uploads' = [ uploads EXCEPT ![u] = AfterChunk(@, cs, NextToSave(cs, k)) ]
    /\ UNCHANGED <<documents, messages, deletes, turns, resetCount,
                   chunkerVars, rankerVars>>

\* (mutant) the error of chunk.save() leaves the loop and fails the upload
AfterChunkSaveRethrown(up, cs, k) == [ up EXCEPT !.pc = "failed", !.tmp = FALSE ]

\* catch (error) { console.error(...) } inside the loop: on to the next chunk
AfterChunkSaveFailed(up, cs, k) == AfterChunk(up, cs, NextToSave(cs, k))

\* chunk.save() fails: the error is logged and the loop goes on
UploadSaveChunkFail(u) ==
    /\ uploads[u].pc = "chunking"
    /\ LET k == uploads[u].next
           cs == ChunksOfText(uploads[u].text)
       IN  uploads' = [ uploads EXCEPT ![u] = AfterChunkSaveFailed(@, cs, k) ]
    /\ UNCHANGED <<documents, chunkStore, messages, tasks, deletes, turns, resetCount,
                   chunkerVars, rankerVars>>

\* ---- the detached embedding task of a chunk

IsStored(id) == \E i \in 1..Len(chunkStore) : chunkStore[i].id = id

\* (mutant) the vector is written to every chunk of the chunk's document
WriteEmbeddingToDocument(store, id, v) ==
    [ i \in 1..Len(store) |->
        IF store[i].documentId = id[1] THEN [ store[i] EXCEPT !.embedding = v ]
        ELSE store[i] ]

\* savedChunk.embedding = embedding; await savedChunk.save()
WriteEmbedding(store, id, v) ==
    [ i \in 1..Len(store) |->
        IF store[i].id = id THEN [ store[i] EXCEPT !.embedding = v ] ELSE store[i] ]

\* generateEmbedding resolves and the then-callback saves the vector; the save
\* of a chunk that has been deleted meanwhile updates nothing and is logged
EmbedResolve(id) ==
    /\ id \in DOMAIN tasks
    /\ tasks[id] = "pending"
    /\ \E v \in EmbedderVectors :
         IF IsStored(id)
         THEN /\ chunkStore' = WriteEmbedding(chunkStore, id, v)
              /\ tasks' = [ tasks EXCEPT ![id] = "done" ]
         ELSE /\ chunkStore' = chunkStore
              /\ tasks' = [ tasks EXCEPT ![id] = "failed" ]
    /\ UNCHANGED <<documents, messages, uploads, deletes, turns, resetCount,
                   chunkerVars, rankerVars>>

\* (mutant) the chunk whose embedding failed is removed again
ChunksAfterFailedEmbeddingDropped(id) ==
    SelectSeq(chunkStore, LAMBDA c : c.id # id)

\* .catch(error => console.error(...)): the collection is left as it is
ChunksAfterFailedEmbedding(id) == chunkStore

\* generateEmbedding rejects
EmbedReject(id) ==
    /\ id \in DOMAIN tasks
    /\ tasks[id] = "pending"
    /\ tasks' = [ tasks EXCEPT ![id] = "failed" ]
    /\ chunkStore' = ChunksAfterFailedEmbedding(id)
    /\ UNCHANGED <<documents, messages, uploads, deletes, turns, resetCount,
                   chunkerVars, rankerVars>>

\* ---- DELETE /api/documents/:id -> storage.deleteDocument

\* Document.findByIdAndDelete(id); return false when there was none
DeleteFind(d) ==
    /\ deletes[d].pc = "idle"
    /\ \E id \in Uploads :
         /\ documents' = documents \ { id }
         /\ deletes' = [ deletes EXCEPT ![d] =
               [ pc |-> IF id \in documents THEN "deleteMany" ELSE "false", id |-> id ] ]
    /\ UNCHANGED <<chunkStore, messages, tasks, uploads, turns, resetCount,
                   chunkerVars, rankerVars>>

\* DocumentChunk.deleteMany({ documentId: id }); return true
DeleteChunks(d) ==
    /\ deletes[d].pc = "deleteMany"
    /\ chunkStore' = SelectSeq(chunkStore, LAMBDA c : c.documentId # deletes[d].id)
    /\ deletes' = [ deletes EXCEPT ![d].pc = "true" ]
    /\ UNCHANGED <<documents, messages, tasks, uploads, turns, resetCount,
                   chunkerVars, rankerVars>>

\* ---- POST /api/chat; the requests are numbered in the order they arrive

\* a handler that has answered: its locals are gone
Answered(turn, pc) ==
    [ turn EXCEPT !.pc = pc, !.embedding = Null, !.similar = <<>>, !.history = <<>>,
                  !.prompt = <<>> ]

\* (mutant) the handler goes on without storing the user's message
WithoutUserMessage(msgs, t) == msgs

\* await storage.createMessage(userMessage)
WithUserMessage(msgs, t) == Append(msgs, Message("user", t))

\* the request arrives: 400 without content; else storage.createMessage(
\* userMessage) stores the user's message and generateEmbedding(content) is
\* issued
ChatReceive(t) ==
    /\ turns[t].pc = "idle"
    /\ \A r \in Turns : r < t => turns[r].pc # "idle"
    /\ \E content \in { "", "question" } :
         IF content = ""
         THEN /\ turns' = [ turns EXCEPT ![t].pc = "rejected" ]
              /\ messages' = messages
         ELSE /\ turns' = [ turns EXCEPT ![t] =
                    [ @ EXCEPT !.pc = "embedding", !.epoch = resetCount ] ]
              /\ messages' = WithUserMessage(messages, t)
    /\ UNCHANGED <<documents, chunkStore, tasks, uploads, deletes, resetCount,
                   chunkerVars, rankerVars>>

\* generateEmbedding resolves; searchSimilarChunks is issued
ChatEmbedResolve(t) ==
    /\ turns[t].pc = "embedding"
    /\ \E v \in EmbedderVectors :
         turns' = [ turns EXCEPT ![t] = [ @ EXCEPT !.pc = "search", !.embedding = v ] ]
    /\ UNCHANGED <<documents, chunkStore, messages, tasks, uploads, deletes, resetCount,
                   chunkerVars, rankerVars>>

\* (mutant) the catch block of the chat handler removes the turn's messages
MessagesAfterFailedTurnRolledBack(t) ==
    SelectSeq(messages, LAMBDA m : m.turn # t)

\* catch (error) { console.error(...); res.status(500)... }: the collection
\* is left as it is
MessagesAfterFailedTurn(t) == messages

\* generateEmbedding rejects: the handler answers 500
ChatEmbedReject(t) ==
    /\ turns[t].pc = "embedding"
    /\ turns' = [ turns EXCEPT ![t] = Answered(@, "failed") ]
    /\ messages' = MessagesAfterFailedTurn(t)
    /\ UNCHANGED <<documents, chunkStore, tasks, uploads, deletes, resetCount,
                   chunkerVars, rankerVars>>

\* storage.searchSimilarChunks(embedding, 5); getMessages is issued (the query
\* vector is not read again)
ChatSearch(t) ==
    /\ turns[t].pc = "search"
    /\ turns' = [ turns EXCEPT ![t] =
          [ @ EXCEPT !.pc = "history",
                     !.embedding = Null,
                     !.similar = searchSimilarChunks(chunkStore, turns[t].embedding, TopK) ] ]
    /\ UNCHANGED <<documents, chunkStore, messages, tasks, uploads, deletes, resetCount,
                   chunkerVars, rankerVars>>

\* the two system instructions of generateChatResponse
GroundedInstruction == "answer ONLY from the document excerpts below"

NoDocumentsInstruction == "answer ONLY from uploaded documents; none is relevant"

\* (mutant) the system message that announces excerpts whatever it is given
SystemMessageAlwaysGrounded(contextChunks) ==
    [ role |-> "system",
      instruction |-> GroundedInstruction,
      excerpts |-> [ i \in 1..Len(contextChunks) |-> contextChunks[i].content ] ]

\* const systemMessage = { role: "system", content: contextText }: contextText
\* is one instruction or the other, the first followed by the chunks' contents
SystemMessage(contextChunks) ==
    IF Len(contextChunks) > 0
    THEN [ role |-> "system",
           instruction |-> GroundedInstruction,
           excerpts |-> [ i \in 1..Len(contextChunks) |-> contextChunks[i].content ] ]
    ELSE [ role |-> "system",
           instruction |-> NoDocumentsInstruction,
           excerpts |-> <<>> ]

\* messages.map(msg => ({ role: msg.role, content: msg.content })); a message's
\* content is identified by the request that sent or answers it
RoleAndContent(msgs) ==
    [ i \in 1..Len(msgs) |-> [ role |-> msgs[i].role, turn |-> msgs[i].turn ] ]

\* the messages generateChatResponse(messages, { chunks }) sends to the model
FormattedMessages(msgs, contextChunks) == <<SystemMessage(contextChunks)>> \o msgs

\* storage.getMessages(); generateChatResponse(formattedMessages, ...) is issued
ChatGetMessages(t) ==
    /\ turns[t].pc = "history"
    /\ turns' = [ turns EXCEPT ![t] =
          [ @ EXCEPT !.pc = "generating",
                     !.history = messages,
                     !.prompt = FormattedMessages(RoleAndContent(messages),
                                                  turns[t].similar) ] ]
    /\ UNCHANGED <<documents, chunkStore, messages, tasks, uploads, deletes, resetCount,
                   chunkerVars, rankerVars>>

\* generateChatResponse resolves and createMessage(assistant) stores the answer
ChatGenerateResolve(t) ==
    /\ turns[t].pc = "generating"
    /\ messages' = Append(messages, Message("assistant", t))
    /\ turns' = [ turns EXCEPT ![t] = Answered(@, "done") ]
    /\ UNCHANGED <<documents, chunkStore, tasks, uploads, deletes, resetCount,
                   chunkerVars, rankerVars>>

\* generateChatResponse rejects: the handler answers 500
ChatGenerateReject(t) ==
    /\ turns[t].pc = "generating"
    /\ turns' = [ turns EXCEPT ![t] = Answered(@, "failed") ]
    /\ messages' = MessagesAfterFailedTurn(t)
    /\ UNCHANGED <<documents, chunkStore, tasks, uploads, deletes, resetCount,
                   chunkerVars, rankerVars>>

\* ---- POST /api/messages/reset

\* (mutant) a reset that keeps the assistant's messages
ClearedKeepingAnswers == SelectSeq(messages, LAMBDA m : m.role = "assistant")

\* Message.deleteMany({})
Cleared == <<>>

Reset ==
    /\ resetCount < MaxResets
    /\ messages' = Cleared
    /\ resetCount' = resetCount + 1
    /\ UNCHANGED <<documents, chunkStore, tasks, uploads, deletes, turns,
                   chunkerVars, rankerVars>>

Next ==
    \/ \E u \in Uploads :
         \/ UploadReceive(u)
         \/ UploadSaveDocument(u)
         \/ UploadSaveDocumentFail(u)
         \/ UploadSaveChunk(u)
         \/ UploadSaveChunkFail(u)
    \/ \E id \in DOMAIN tasks : EmbedResolve(id) \/ EmbedReject(id)
    \/ \E d \in Deletes : DeleteFind(d) \/ DeleteChunks(d)
    \/ \E t \in Turns :
         \/ ChatReceive(t)
         \/ ChatEmbedResolve(t)
         \/ ChatEmbedReject(t)
         \/ ChatSearch(t)
         \/ ChatGetMessages(t)
         \/ ChatGenerateResolve(t)
         \/ ChatGenerateReject(t)
    \/ Reset

Spec == Init /\ [][Next]_vars

----------------------------------------------------------------------------
(* Claims about the server, checked under Spec *)

\* the chunks of document id in a collection
ChunksOfDocument(store, id) == SelectSeq(store, LAMBDA c : c.documentId = id)

\* the messages a chat request has stored with a role
Stored(msgs, t, role) == SelectSeq(msgs, LAMBDA m : m.turn = t /\ m.role = role)

\* C2: once deleteDocument(id) has returned true, no chunk of that document is
\* in the collection, whatever runs beside it.
C2_NoChunkAfterDeleteReturnedTrue ==
    \A d \in Deletes :
        deletes[d].pc = "true" => ChunksOfDocument(chunkStore, deletes[d].id) = <<>>

\* C3: a chat turn whose embedding or generator call fails ends failed, it has
\* stored no assistant message and never stores one, its failure leaves the
\* conversation as it was, and its user message leaves the conversation only
\* when a reset clears it.
C3_FailedTurnKeepsUserMessage ==
    [][ \A t \in Turns :
          /\ (turns[t].pc \in { "embedding", "generating" } /\ turns'[t].pc = "failed")
                => messages' = messages
          /\ turns'[t].pc = "failed" => Stored(messages', t, "assistant") = <<>>
          /\ turns[t].pc = "failed" => turns'[t].pc = "failed"
          /\ (Stored(messages, t, "user") # <<>> /\ Stored(messages', t, "user") = <<>>)
                => (resetCount' = resetCount + 1 /\ turns' = turns) ]_vars

\* a turn has failed and its user message is in the conversation, without answer
C3_Witness ==
    \E t \in Turns :
        /\ turns[t].pc = "failed"
        /\ Stored(messages, t, "user") # <<>>
        /\ Stored(messages, t, "assistant") = <<>>

\* C4 as stated: every message of the conversation belongs to a chat turn that
\* began (stored its user message) after the latest reset.
C4_OnlyTurnsBegunAfterReset ==
    \A i \in 1..Len(messages) : turns[messages[i].turn].epoch = resetCount

\* C4 as amended: a reset leaves the conversation empty, and every message of
\* the conversation was stored after the latest reset.
C4_ResetEmptiesAndMessagesAreLater ==
    [][ /\ resetCount' # resetCount => messages' = <<>>
        /\ \A i \in 1..Len(messages') : messages'[i].epoch = resetCount' ]_vars

\* the answer of a turn that began before the reset is in the fresh history
C4_Witness ==
    /\ resetCount = 1
    /\ \E i \in 1..Len(messages) :
         /\ messages[i].role = "assistant"
         /\ messages[i].epoch = 1
         /\ turns[messages[i].turn].epoch = 0

\* C5: every chunk a chat turn's searchSimilarChunks returns is in the
\* collection, with an embedding, when the query runs.
C5_SearchReturnsEmbeddedChunksOnly ==
    [][ \A t \in Turns :
          (turns[t].pc = "search" /\ turns'[t].pc = "history") =>
              \A i \in 1..Len(turns'[t].similar) :
                  /\ turns'[t].similar[i].embedding # Null
                  /\ \E j \in 1..Len(chunkStore) :
                       chunkStore[j] = turns'[t].similar[i] ]_vars

\* a search has returned one chunk of a collection of two, the other one
\* having no embedding
C5_Witness ==
    /\ Len(chunkStore) = 2
    /\ \E j \in 1..2 : chunkStore[j].embedding = Null
    /\ \E t \in Turns :
         /\ turns[t].pc = "history"
         /\ Len(turns[t].similar) = 1
         /\ \E j \in 1..2 : chunkStore[j] = turns[t].similar[1]

\* C9: the failure of a chunk's embedding request changes no upload, no chat
\* turn, no document and no chunk; the upload of a chunk whose request was
\* issued never fails; and a failed request stays failed, its chunk, while it
\* is stored, keeping an absent embedding.
C9_EmbeddingFailureIsSwallowedAndFinal ==
    [][ \A id \in DOMAIN tasks :
          /\ (tasks[id] = "pending" /\ tasks'[id] = "failed")
                => /\ uploads' = uploads
                   /\ turns' = turns
                   /\ documents' = documents
                   /\ chunkStore' = chunkStore
          /\ uploads'[id[1]].pc \in { "chunking", "done" }
          /\ tasks[id] = "failed" =>
                /\ tasks'[id] = "failed"
                /\ \A j \in 1..Len(chunkStore') :
                     chunkStore'[j].id = id => chunkStore'[j].embedding = Null ]_vars

\* the upload is done, the request of one of its chunks has failed and the
\* chunk is stored without embedding, while a chat turn has answered
C9_Witness ==
    \E id \in DOMAIN tasks :
        /\ tasks[id] = "failed"
        /\ uploads[id[1]].pc = "done"
        /\ \E j \in 1..Len(chunkStore) :
             chunkStore[j].id = id /\ chunkStore[j].embedding = Null
        /\ \E t \in Turns : turns[t].pc = "done"

\* C10: a chunk enters the collection without embedding; an embedding is
\* written only to a chunk that is already in the collection, by the chunk's
\* own pending request; and no step of an upload touches a stored chunk.
C10_ChunkStoredBeforeItsEmbedding ==
    [][ /\ \A j \in 1..Len(chunkStore') :
             chunkStore'[j].embedding # Null =>
                 \E i \in 1..Len(chunkStore) :
                     /\ chunkStore[i].id = chunkStore'[j].id
                     /\ \/ chunkStore[i] = chunkStore'[j]
                        \/ /\ chunkStore[i].embedding = Null
                           /\ tasks[chunkStore[i].id] = "pending"
                           /\ tasks'[chunkStore[i].id] = "done"
        /\ uploads' # uploads =>
             \A i \in 1..Len(chunkStore) : \E j \in 1..Len(chunkStore') :
                 chunkStore'[j] = chunkStore[i] ]_vars

\* the upload has returned its document, both of its chunks are stored
\* without embedding, their requests pending, and a chat turn's search has
\* returned nothing
C10_Witness ==
    /\ \E u \in Uploads : uploads[u].pc = "done" /\ u \in documents
    /\ Len(chunkStore) = 2
    /\ \A j \in 1..Len(chunkStore) :
         chunkStore[j].embedding = Null /\ tasks[chunkStore[j].id] = "pending"
    /\ \E t \in Turns : turns[t].pc = "history" /\ turns[t].similar = <<>>

\* C11: an upload whose file has an extension outside .pdf, .docx, .txt, .md, or
\* whose extractor threw, has failed; it has stored no document and no chunk,
\* requested no embedding, never reached the chunker's loop, and its temporary
\* file is gone.
C11_ExtractionFailureLeavesNothing ==
    \A u \in Uploads :
        (/\ uploads[u].pc # "idle"
         /\ \/ uploads[u].ext \notin { ".pdf", ".docx", ".txt", ".md" }
            \/ uploads[u].text = 0)
            => /\ uploads[u].pc = "failed"
               /\ uploads[u].tmp = FALSE
               /\ uploads[u].next = 0
               /\ u \notin documents
               /\ ChunksOfDocument(chunkStore, u) = <<>>
               /\ \A id \in DOMAIN tasks : id[1] # u

\* the upload of a .pdf on which the extractor threw has failed, and a chat
\* turn has searched an empty collection since
C11_Witness ==
    /\ \E u \in Uploads :
         /\ uploads[u].pc = "failed"
         /\ uploads[u].ext = ".pdf"
         /\ uploads[u].text = 0
         /\ uploads[u].tmp = FALSE
    /\ documents = {}
    /\ chunkStore = <<>>
    /\ \E t \in Turns : turns[t].pc = "history" /\ turns[t].similar = <<>>

\* the positions of the messages a chat request has stored with a role
Positions(msgs, t, role) ==
    { i \in 1..Len(msgs) : msgs[i].turn = t /\ msgs[i].role = role }

\* C12: a chat request stores at most one user and one assistant message; it
\* stores its user message on arrival, before any answer of its own; it stores
\* its assistant message only after its user message, which is then earlier in
\* the conversation unless a reset has cleared it in between.
C12_UserBeforeAssistantPerRequest ==
    [][ \A t \in Turns :
          /\ Cardinality(Positions(messages', t, "user")) <= 1
          /\ Cardinality(Positions(messages', t, "assistant")) <= 1
          /\ (Positions(messages, t, "user") = {} /\ Positions(messages', t, "user") # {})
                => /\ turns[t].pc = "idle"
                   /\ Positions(messages', t, "assistant") = {}
          /\ (Positions(messages, t, "assistant") = {}
                /\ Positions(messages', t, "assistant") # {})
                => /\ turns[t].pc = "generating"
                   /\ \/ \E i \in Positions(messages', t, "user") :
                            \A j \in Positions(messages', t, "assistant") : i < j
                      \/ resetCount > turns[t].epoch ]_vars

\* two requests ran side by side: their user messages are adjacent and the
\* second request's answer was stored before the first's
C12_Witness ==
    /\ Len(messages) = 4
    /\ messages[1].role = "user" /\ messages[1].turn = 1
    /\ messages[2].role = "user" /\ messages[2].turn = 2
    /\ messages[3].role = "assistant" /\ messages[3].turn = 2
    /\ messages[4].role = "assistant" /\ messages[4].turn = 1

\* C13: a chat turn whose search returned no chunk goes on to the generator
\* like any other; the generator's first message is the system message, with
\* the no-documents instruction and no excerpt when no chunk was retrieved and
\* with the grounding instruction and exactly the retrieved chunks' contents,
\* in rank order, otherwise; the conversation follows it; and when the
\* generator answers, the assistant message is stored.
C13_SystemMessageFollowsRetrieval ==
    [][ \A t \in Turns :
          /\ (turns[t].pc = "history" /\ turns'[t] # turns[t]) =>
                LET sim == turns[t].similar
                    p == turns'[t].prompt
                IN  /\ turns'[t].pc = "generating"
                    /\ Len(p) = Len(messages) + 1
                    /\ p[1].role = "system"
                    /\ sim = <<>> =>
                          /\ p[1].instruction = NoDocumentsInstruction
                          /\ p[1].excerpts = <<>>
                    /\ sim # <<>> =>
                          /\ p[1].instruction = GroundedInstruction
                          /\ Len(p[1].excerpts) = Len(sim)
                          /\ \A i \in 1..Len(sim) : p[1].excerpts[i] = sim[i].content
                    /\ \A i \in 1..Len(messages) :
                          /\ p[i + 1].role = messages[i].role
                          /\ p[i + 1].turn = messages[i].turn
          /\ (turns[t].pc = "generating" /\ turns'[t].pc = "done") =>
                /\ Len(messages') = Len(messages) + 1
                /\ messages'[Len(messages')].role = "assistant"
                /\ messages'[Len(messages')].turn = t ]_vars

\* two generator calls are in flight: one with the no-documents instruction,
\* the other with two excerpts of different similarity
C13_Witness ==
    \E t1 \in Turns : \E t2 \in Turns :
        /\ turns[t1].pc = "generating"
        /\ turns[t1].similar = <<>>
        /\ turns[t1].prompt[1].instruction = NoDocumentsInstruction
        /\ turns[t2].pc = "generating"
        /\ Len(turns[t2].similar) = 2
        /\ turns[t2].similar[1].embedding # turns[t2].similar[2].embedding
        /\ turns[t2].prompt[1].instruction = GroundedInstruction
        /\ Len(turns[t2].prompt[1].excerpts) = 2

----------------------------------------------------------------------------
(* Further claims about splitTextIntoChunks, checked under SpecChunker *)

\* C14: a text of 2500 characters split with chunkSize 1000 and overlap 200
\* comes back as 3 or 4 chunks of at most 1099 characters each, and every chunk
\* after the first begins 200 characters before the end of the one before it,
\* so that its first 200 characters are the last 200 of that one.
C14_Chunks2500 ==
    (cpc = "done" /\ Len(text) = 2500 /\ chunkSize = 1000 /\ overlap = 200) =>
        /\ Len(chunks) \in { 3, 4 }
        /\ \A i \in 1..Len(chunks) :
             /\ Len(chunks[i]) <= 1099
             /\ i > 1 =>
                  /\ cuts[i][1] = cuts[i - 1][2] - 200
                  /\ Len(chunks[i]) >= 200
                  /\ SubSeq(chunks[i], 1, 200) =
                        SubSeq(chunks[i - 1], Len(chunks[i - 1]) - 199, Len(chunks[i - 1]))

\* a text of 2500 characters has come back as 4 chunks, the first two cut at
\* boundaries before their proposed ends
C14_Witness ==
    /\ cpc = "done"
    /\ Len(text) = 2500 /\ chunkSize = 1000 /\ overlap = 200
    /\ Len(chunks) = 4
    /\ Len(chunks[1]) < 1000
    /\ Len(chunks[2]) < 1000

\* the positions lo..hi of t at which pat occurs
Occurrences(t, pat, lo, hi) ==
    { i \in Max2(lo, 0)..Min2(hi, Len(t) - Len(pat)) :
        \A j \in 1..Len(pat) : t[i + j] = pat[j] }

\* the least element of a non-empty set of positions
Least(S) == CHOOSE i \in S : \A j \in S : i <= j

\* C16 as stated: for a proposed end before the text's end, a paragraph break
\* from end-100 up to end+100 (read as excluding end+100) moves the end to a
\* paragraph break of that window; otherwise a sentence terminator within
\* [end-100, end+50] moves it to just after the period; otherwise the end stays.
C16_SnapWindowsClosed ==
    \A i \in 1..Len(cuts) :
        LET end == cuts[i][1] + chunkSize
            P == Occurrences(text, ParagraphBreak, end - 100, end + 99)
            S == Occurrences(text, SentenceBreak, end - 100, end + 50)
        IN  end < Len(text) =>
                IF P # {} THEN cuts[i][2] \in P
                ELSE IF S # {} THEN cuts[i][2] - 1 \in S
                ELSE cuts[i][2] = end

\* C16 as amended: the windows end before end+100 and before end+50; the end
\* moves to the first paragraph break at or after end-100 when that lies before
\* end+100, otherwise to just after the first sentence terminator at or after
\* end-100 when that lies before end+50, and otherwise it stays.
C16_SnapWindowsHalfOpen ==
    \A i \in 1..Len(cuts) :
        LET end == cuts[i][1] + chunkSize
            P == Occurrences(text, ParagraphBreak, end - 100, end + 99)
            S == Occurrences(text, SentenceBreak, end - 100, end + 49)
        IN  end < Len(text) =>
                IF P # {} THEN cuts[i][2] = Least(P)
                ELSE IF S # {} THEN cuts[i][2] = Least(S) + 1
                ELSE cuts[i][2] = end

\* an end was moved to a sentence end although the text has a paragraph break
\* exactly 100 characters past the proposed end
C16_Witness ==
    \E i \in 1..Len(cuts) :
        LET end == cuts[i][1] + chunkSize
        IN  /\ end < Len(text)
            /\ Occurrences(text, ParagraphBreak, end + 100, end + 100) # {}
            /\ Occurrences(text, ParagraphBreak, end - 100, end + 99) = {}
            /\ cuts[i][2] - 1 \in Occurrences(text, SentenceBreak, end - 100, end + 49)
            /\ cuts[i][2] # end

\* ceil(n / d)
CeilDiv(n, d) == (n + d - 1) \div d

\* C18 as stated: with chunkSize 1000 and overlap 200 every iteration of the
\* loop finds the cursor non-negative, leaves it non-negative and at least 700
\* further, cuts a chunk whose end is past its start, and is at most the
\* (ceil(length / 700) + 1)-th.
C18_CursorAdvancesEveryIteration ==
    [][ (chunkSize = 1000 /\ overlap = 200 /\ Len(cuts') = Len(cuts) + 1) =>
            /\ startPos >= 0
            /\ startPos' >= 0
            /\ startPos' >= startPos + 700
            /\ cuts'[Len(cuts')][2] > cuts'[Len(cuts')][1]
            /\ Len(cuts') <= CeilDiv(Len(text), 700) + 1 ]_vars

\* C18 as amended: the same, the two conditions on the cursor an iteration
\* leaves being required only of an iteration after which the loop goes on.
C18_CursorAdvancesWhileLoopContinues ==
    [][ (chunkSize = 1000 /\ overlap = 200 /\ Len(cuts') = Len(cuts) + 1) =>
            /\ startPos >= 0
            /\ cpc' = "loop" => (startPos' >= 0 /\ startPos' >= startPos + 700)
            /\ cuts'[Len(cuts')][1] = startPos
            /\ cuts'[Len(cuts')][2] > cuts'[Len(cuts')][1]
            /\ Len(cuts') <= CeilDiv(Len(text), 700) + 1 ]_vars

\* a call with chunkSize 1000 and overlap 200 has returned after four
\* iterations, the last of which moved the cursor by less than 700
C18_Witness ==
    /\ cpc = "done"
    /\ chunkSize = 1000 /\ overlap = 200
    /\ Len(cuts) = 4
    /\ startPos < cuts[4][1] + 700

----------------------------------------------------------------------------
(* Further claims about the server, checked under Spec *)

\* C15: a stored chunk never changes its content or its document; its
\* embedding changes only from absent to present, in the step in which its own
\* pending request completes, and that step leaves every other chunk as it was;
\* and the writes of two pending requests give the same collection in either
\* order.
C15_EmbeddingWrittenOnceToItsOwnChunk ==
    [][ /\ \A i \in 1..Len(chunkStore) : \A j \in 1..Len(chunkStore') :
             chunkStore'[j].id = chunkStore[i].id =>
                 /\ chunkStore'[j].content = chunkStore[i].content
                 /\ chunkStore'[j].documentId = chunkStore[i].documentId
                 /\ chunkStore'[j].embedding # chunkStore[i].embedding =>
                       /\ chunkStore[i].embedding = Null
                       /\ chunkStore'[j].embedding # Null
                       /\ tasks[chunkStore[i].id] = "pending"
                       /\ tasks'[chunkStore[i].id] = "done"
                       /\ Len(chunkStore') = Len(chunkStore)
                       /\ \A k \in 1..Len(chunkStore) :
                             k # i => chunkStore'[k] = chunkStore[k]
        /\ \A a \in DOMAIN tasks : \A b \in DOMAIN tasks :
             (a # b /\ tasks[a] = "pending" /\ tasks[b] = "pending") =>
                 \A va \in EmbedderVectors : \A vb \in EmbedderVectors :
                     WriteEmbedding(WriteEmbedding(chunkStore, a, va), b, vb)
                         = WriteEmbedding(WriteEmbedding(chunkStore, b, vb), a, va) ]_vars

\* the two chunks of a document carry different embeddings, the second
\* chunk's request having completed while the first was still pending
C15_Witness ==
    /\ Len(chunkStore) = 2
    /\ chunkStore[1].documentId = chunkStore[2].documentId
    /\ chunkStore[1].embedding = Null
    /\ chunkStore[2].embedding # Null
    /\ tasks[chunkStore[1].id] = "pending"
    /\ tasks[chunkStore[2].id] = "done"

\* C17: every stored chunk, and every chunk an embedding was requested for,
\* has content that is not empty after trimming; a chunk of an upload's text
\* that is empty after trimming is neither stored nor embedded.
C17_StoredChunksAreNotBlank ==
    /\ \A i \in 1..Len(chunkStore) : ~TrimIsEmpty(ContentOf(chunkStore[i].content))
    /\ \A u \in Uploads :
         uploads[u].text # 0 =>
             LET cs == ChunksOfText(uploads[u].text)
             IN  /\ \A id \in DOMAIN tasks :
                      id[1] = u => (id[2] \in 1..Len(cs) /\ ~TrimIsEmpty(cs[id[2]]))
                 /\ \A k \in 1..Len(cs) :
                      TrimIsEmpty(cs[k]) => (<<u, k>> \notin DOMAIN tasks /\ ~IsStored(<<u, k>>))

\* an upload has returned whose text gave a first chunk that is stored and a
\* second, blank one that was skipped
C17_Witness ==
    \E u \in Uploads :
        /\ uploads[u].pc = "done"
        /\ uploads[u].text # 0
        /\ Len(ChunksOfText(uploads[u].text)) = 2
        /\ TrimIsEmpty(ChunksOfText(uploads[u].text)[2])
        /\ IsStored(<<u, 1>>)
        /\ DOMAIN tasks = { <<u, 1>> }

\* C19: every chunk a chat turn's searchSimilarChunks returns belongs to a
\* document that is in the document collection when the query runs.
C19_SearchReturnsChunksOfStoredDocuments ==
    [][ \A t \in Turns :
          (turns[t].pc = "search" /\ turns'[t].pc = "history") =>
              \A i \in 1..Len(turns'[t].similar) :
                  turns'[t].similar[i].documentId \in documents ]_vars

\* C20: a step of an upload's loop that stores no chunk (chunk.save() failed)
\* requests no embedding, changes no collection, and leaves the upload in its
\* loop at the next chunk that is not blank, or returned; and an embedding is
\* only ever requested for a chunk that has just been stored.
C20_ChunkSaveFailureIsSwallowed ==
    [][ /\ \A u \in Uploads :
             (/\ uploads[u].pc = "chunking"
              /\ uploads'[u] # uploads[u]
              /\ \A j \in 1..Len(chunkStore') : chunkStore'[j].id # <<u, uploads[u].next>>)
                 => LET cs == ChunksOfText(uploads[u].text)
                        after == { k \in (uploads[u].next + 1)..Len(cs) : ~TrimIsEmpty(cs[k]) }
                    IN  /\ <<u, uploads[u].next>> \notin DOMAIN tasks'
                        /\ tasks' = tasks
                        /\ chunkStore' = chunkStore
                        /\ documents' = documents
                        /\ IF after = {}
                           THEN uploads'[u].pc = "done"
                           ELSE /\ uploads'[u].pc = "chunking"
                                /\ uploads'[u].next = Least(after)
        /\ \A id \in DOMAIN tasks' :
             id \notin DOMAIN tasks =>
                 /\ tasks'[id] = "pending"
                 /\ \E j \in 1..Len(chunkStore') : chunkStore'[j].id = id
                 /\ \A i \in 1..Len(chunkStore) : chunkStore[i].id # id ]_vars

\* an upload has returned and its document is stored; the save of its first
\* chunk failed and no embedding was requested for it, the second chunk is
\* stored, and nothing was ever deleted
C20_Witness ==
    \E u \in Uploads :
        /\ uploads[u].pc = "done"
        /\ u \in documents
        /\ \A d \in Deletes : deletes[d].pc = "idle"
        /\ Len(ChunksOfText(uploads[u].text)) = 2
        /\ ~TrimIsEmpty(ChunksOfText(uploads[u].text)[1])
        /\ ~IsStored(<<u, 1>>)
        /\ <<u, 1>> \notin DOMAIN tasks
        /\ IsStored(<<u, 2>>)
        /\ <<u, 2>> \in DOMAIN tasks

====
